---- MODULE Spec2Model ----
(***************************************************************************)
(* Model of src/mastra/tools/calendarTools.ts: the two module-level token  *)
(* caches (calendarConnectionSettings, gmailConnectionSettings), the two   *)
(* textually identical functions getCalendarAccessToken and                *)
(* getGmailAccessToken, and the tool wrappers built on them.               *)
(*                                                                         *)
(* JavaScript runs each async function atomically between two awaits, so   *)
(* a call of getAccessToken is two steps: the synchronous part up to the   *)
(* fetch (lines 8-31), and the continuation after the response arrived     *)
(* (the assignment of lines 23/234 and lines 33-38).                       *)
(***************************************************************************)
EXTENDS Integers, Sequences, FiniteSets, TLC

\* ---------------------------------------------------------------- bounds

\* The clock runs over 0..MaxTime; expiry stamps are drawn from 1..MaxTime.
MaxTime == 2

\* How many items a list call of the provider returns, at most.
MaxItems == 2

\* The invocations of createOrGetLabel whose outcome is recorded.
MaxLabelCalls == 2

\* The parts of a message payload.
MaxParts == 2

\* ---------------------------------------------------------------- values

Families == {"calendar", "mail"}

\* Concurrent callers of the token functions.
Procs == {1, 2}

\* JavaScript's undefined, for a string-valued field.
None == "undefined"

\* settings.expires_at absent (the stamps present are 1..MaxTime).
NoExpiry == 0

\* What a settings field holding a token can be: absent, or a token.
AccessVals == {None, "A"}
OAuthVals == {None, "B"}
ExpiryVals == {NoExpiry} \cup (1..MaxTime)

\* data.items?.[0] when items is empty or absent.
Undefined ==
  [present |-> FALSE, settings |-> FALSE, access_token |-> None,
   oauth_token |-> None, expires_at |-> NoExpiry]

\* A connector item that carries no settings object.
BareItem ==
  [present |-> TRUE, settings |-> FALSE, access_token |-> None,
   oauth_token |-> None, expires_at |-> NoExpiry]

\* A connector item with settings { access_token?, oauth.credentials.access_token?, expires_at? }.
SettingsItems ==
  [present : {TRUE}, settings : {TRUE}, access_token : AccessVals,
   oauth_token : OAuthVals, expires_at : ExpiryVals]

\* Every value the expression data.items?.[0] can take.
ItemVals == {Undefined, BareItem} \cup SettingsItems

\* The messages of the errors the token functions throw, and the two
\* failures that come from the runtime.
NotConnectedMsg(f) ==
  IF f = "calendar" THEN "Google Calendar not connected" ELSE "Gmail not connected"
ConfigMsg == "X_REPLIT_TOKEN not found for repl/depl"
TypeErrorMsg == "TypeError"
FetchErrorMsg == "FetchError"

\* ------------------------------------------------------- pure fragments

\* JavaScript truthiness of a string-valued field.
Truthy(v) == v # None

\* Mutant: the null branch is lost, the header is built from an absent identity.
XReplitToken_NeverNull(e) ==
  IF Truthy(e.REPL_IDENTITY) THEN "repl" ELSE "depl"

\* Lines 13-17 / 224-228: the X_REPLIT_TOKEN header value, or null.
XReplitToken(e) ==
  IF Truthy(e.REPL_IDENTITY) THEN "repl"
  ELSE IF Truthy(e.WEB_REPL_RENEWAL) THEN "depl"
  ELSE None

\* Mutant: >= for >, a record expiring now is still served.
CacheCheck_AtOrAfter(c, t) ==
  IF ~c.present THEN "miss"
  ELSE IF ~c.settings THEN "throws"
  ELSE IF c.expires_at # NoExpiry /\ c.expires_at >= t THEN "hit"
  ELSE "miss"

\* Mutant: the test of expires_at is lost, a record without expiry is served.
CacheCheck_NoExpiryServed(c, t) ==
  IF ~c.present THEN "miss"
  ELSE IF ~c.settings THEN "throws"
  ELSE IF c.expires_at = NoExpiry \/ c.expires_at > t THEN "hit"
  ELSE "miss"

\* Line 8 / 219: the condition of the early return, evaluated left to right.
\*   c && c.settings.expires_at && new Date(c.settings.expires_at).getTime() > Date.now()
\* c.settings is read without ?., so an item without settings throws.
CacheCheck(c, t) ==
  IF ~c.present THEN "miss"
  ELSE IF ~c.settings THEN "throws"
  ELSE IF c.expires_at # NoExpiry /\ c.expires_at > t THEN "hit"
  ELSE "miss"

\* Mutant: the fallback to oauth.credentials.access_token is lost.
ExtractToken_NoFallback(c) ==
  IF ~c.present THEN [throws |-> TRUE, token |-> None]
  ELSE IF ~c.settings THEN [throws |-> FALSE, token |-> None]
  ELSE [throws |-> FALSE, token |-> c.access_token]

\* Line 33 / 244:  c?.settings?.access_token || c.settings?.oauth?.credentials?.access_token
\* The right operand reads c.settings without ?. on c, so it throws when c is
\* undefined (the left operand is then undefined, hence the right one is evaluated).
ExtractToken(c) ==
  IF ~c.present THEN [throws |-> TRUE, token |-> None]
  ELSE IF ~c.settings THEN [throws |-> FALSE, token |-> None]
  ELSE IF Truthy(c.access_token) THEN [throws |-> FALSE, token |-> c.access_token]
  ELSE [throws |-> FALSE, token |-> c.oauth_token]

\* ------------------------------------------------------------ operations

\* The two token functions, called directly.
DirectOps == {"getCalendarAccessToken", "getGmailAccessToken"}

\* The execute functions of the seven tools.
CalendarTools == {"createCalendarEvent", "listUpcomingEvents"}
MailTools ==
  {"listEmails", "getEmailContent", "createOrGetLabel", "addLabelToEmail",
   "createDraftReply"}
ToolOps == CalendarTools \cup MailTools

\* Mutant: both client functions go through one token function and its one
\* module-level variable.
FamilyOf_Shared(o) == "calendar"

\* Which token function an operation goes through (getCalendarClient, line 42,
\* or getGmailClient, line 253).
FamilyOf(o) ==
  IF o \in CalendarTools \cup {"getCalendarAccessToken"} THEN "calendar" ELSE "mail"

\* The provider call a tool issues first, once it holds its client.
FirstCallOf(o) ==
  CASE o = "createCalendarEvent" -> "events.insert"
    [] o = "listUpcomingEvents" -> "events.list"
    [] o = "listEmails" -> "messages.list"
    [] o = "getEmailContent" -> "messages.get"
    [] o = "createOrGetLabel" -> "labels.list"
    [] o = "addLabelToEmail" -> "messages.modify"
    [] o = "createDraftReply" -> "drafts.create"

\* What the provider's failure is raised as.
ProviderErrorMsg == "ProviderError"

\* An operation that takes no label name.
NoInput == "none"

\* context.labelName: the label the tool descriptions name (lines 429, 492),
\* and a name that differs from it in case only.
CampaignLabel == "AZCorpComm_Event"
LabelNames == {CampaignLabel, "azcorpcomm_event"}

\* find() found no label (undefined).
NoLabel == 0

\* The labels of the mailbox, as labels.list returns them: the id of each
\* name, NoLabel for a name the mailbox does not hold.
Mailboxes ==
  {m \in [LabelNames -> 0..Cardinality(LabelNames)] :
     \A a, b \in LabelNames : (a # b /\ m[a] # NoLabel) => m[a] # m[b]}

\* The id the provider gives a label it creates: the least one not in use.
FreshId(m) ==
  CHOOSE i \in 1..Cardinality(LabelNames) + 1 :
    /\ \A n \in LabelNames : m[n] # i
    /\ \A j \in 1..(i - 1) : \E n \in LabelNames : m[n] = j

\* Mutant: the first label of the list is taken, whatever its name.
FindLabel_AnyName(labels, name) ==
  IF \E n \in LabelNames : labels[n] # NoLabel
  THEN labels[CHOOSE n \in LabelNames : labels[n] # NoLabel]
  ELSE NoLabel

\* Lines 448-450: labels?.find((l) => l.name === context.labelName).
FindLabel(labels, name) == labels[name]

\* ---------------------------------------------------------------- strings
\* A string is the sequence of its code points, a Buffer the sequence of its
\* bytes.

\* U+FFFD, which decoding puts in place of a malformed byte.
ReplacementChar == 65533

\* The padding character '='.
PadChar == 61

\* Buffer.from(string): the UTF-8 bytes of a string of code points below 2048.
RECURSIVE Utf8Encode(_)
Utf8Encode(str) ==
  IF str = <<>> THEN <<>>
  ELSE LET c == Head(str)
       IN (IF c < 128 THEN <<c>> ELSE <<192 + (c \div 64), 128 + (c % 64)>>)
          \o Utf8Encode(Tail(str))

\* buffer.toString("utf-8"): one- and two-byte sequences are decoded, any
\* other byte becomes U+FFFD.
RECURSIVE Utf8Decode(_)
Utf8Decode(bytes) ==
  IF bytes = <<>> THEN <<>>
  ELSE LET b == Head(bytes)
       IN IF b < 128 THEN <<b>> \o Utf8Decode(Tail(bytes))
          ELSE IF /\ b >= 194
                  /\ b < 224
                  /\ Len(bytes) >= 2
                  /\ bytes[2] >= 128
                  /\ bytes[2] < 192
               THEN <<(b - 192) * 64 + (bytes[2] - 128)>>
                    \o Utf8Decode(SubSeq(bytes, 3, Len(bytes)))
          ELSE <<ReplacementChar>> \o Utf8Decode(Tail(bytes))

\* The character of a 6-bit value in the base64 alphabet: A-Z, a-z, 0-9, '+',
\* '/'.
Base64Char(v) ==
  IF v < 26 THEN 65 + v
  ELSE IF v < 52 THEN 71 + v
  ELSE IF v < 62 THEN v - 4
  ELSE IF v = 62 THEN 43
  ELSE 47

\* The 6-bit value of a character, of the base64 alphabet or of the URL-safe
\* one ('-', '_'); -1 for any other character.
Base64Value(c) ==
  IF c >= 65 /\ c <= 90 THEN c - 65
  ELSE IF c >= 97 /\ c <= 122 THEN c - 71
  ELSE IF c >= 48 /\ c <= 57 THEN c + 4
  ELSE IF c = 43 \/ c = 45 THEN 62
  ELSE IF c = 47 \/ c = 95 THEN 63
  ELSE -1

\* buffer.toString("base64"): three bytes give four characters, the last
\* group is padded with '='.
RECURSIVE Base64Encode(_)
Base64Encode(bytes) ==
  IF bytes = <<>> THEN <<>>
  ELSE IF Len(bytes) = 1
       THEN <<Base64Char(bytes[1] \div 4), Base64Char((bytes[1] % 4) * 16),
              PadChar, PadChar>>
  ELSE IF Len(bytes) = 2
       THEN <<Base64Char(bytes[1] \div 4),
              Base64Char((bytes[1] % 4) * 16 + (bytes[2] \div 16)),
              Base64Char((bytes[2] % 16) * 4), PadChar>>
  ELSE <<Base64Char(bytes[1] \div 4),
         Base64Char((bytes[1] % 4) * 16 + (bytes[2] \div 16)),
         Base64Char((bytes[2] % 16) * 4 + (bytes[3] \div 64)),
         Base64Char(bytes[3] % 64)>>
       \o Base64Encode(SubSeq(bytes, 4, Len(bytes)))

\* The bytes of a sequence of 6-bit values: four values give three bytes.
RECURSIVE BytesOfValues(_)
BytesOfValues(v) ==
  IF Len(v) < 2 THEN <<>>
  ELSE IF Len(v) = 2 THEN <<v[1] * 4 + (v[2] \div 16)>>
  ELSE IF Len(v) = 3
       THEN <<v[1] * 4 + (v[2] \div 16), (v[2] % 16) * 16 + (v[3] \div 4)>>
  ELSE <<v[1] * 4 + (v[2] \div 16), (v[2] % 16) * 16 + (v[3] \div 4),
         (v[3] % 4) * 64 + v[4]>>
       \o BytesOfValues(SubSeq(v, 5, Len(v)))

\* The characters of str up to its first '='.
RECURSIVE BeforePadding(_)
BeforePadding(str) ==
  IF str = <<>> \/ Head(str) = PadChar THEN <<>>
  ELSE <<Head(str)>> \o BeforePadding(Tail(str))

\* Buffer.from(str, "base64"): both alphabets are taken, the padding ends
\* the data.
Base64Decode(str) ==
  LET chars == BeforePadding(str)
  IN BytesOfValues([i \in 1..Len(chars) |-> Base64Value(chars[i])])

\* .replace(/\+/g, "-").replace(/\//g, "_"): the URL-safe alphabet.
UrlSafe(str) ==
  [i \in 1..Len(str) |->
     IF str[i] = 43 THEN 45 ELSE IF str[i] = 47 THEN 95 ELSE str[i]]

\* .replace(/=+$/, ""): the padding at the end is dropped.
RECURSIVE StripPadding(_)
StripPadding(str) ==
  IF str # <<>> /\ str[Len(str)] = PadChar
  THEN StripPadding(SubSeq(str, 1, Len(str) - 1))
  ELSE str

\* --------------------------------------------------------- message bodies

\* No body data at all (body.data undefined).
NoData == [has |-> FALSE, text |-> <<>>]

\* The texts of message bodies: "", "H", "\u00e9", "ab~", "ab?H".
BodyTexts == {<<>>, <<72>>, <<233>>, <<97, 98, 126>>, <<97, 98, 63, 72>>}

\* The body data of a payload or of a part.
BodyData == {NoData} \cup [has : {TRUE}, text : BodyTexts]

\* part.mimeType.
MimeTypes == {"text/plain", "text/html", "multipart/alternative"}

\* The parts of a payload, as texts.
PartLists ==
  UNION {[1..n -> [mimeType : MimeTypes, body : BodyData]] : n \in 0..MaxParts}

\* The mail provider's encoding of body data: base64 of the UTF-8 bytes in the
\* URL-safe alphabet, with or without the padding.
ProviderData(d, padded) ==
  LET str == UrlSafe(Base64Encode(Utf8Encode(d.text)))
  IN [has |-> d.has, data |-> IF padded THEN str ELSE StripPadding(str)]

\* emailData.data.payload of a message with these texts.
ProviderPayload(top, parts, padded) ==
  [body |-> ProviderData(top, padded),
   parts |-> [i \in 1..Len(parts) |->
                [mimeType |-> parts[i].mimeType,
                 body |-> ProviderData(parts[i].body, padded)]]]

\* body?.data is truthy: defined and not the empty string.
HasData(b) == b.has /\ b.data # <<>>

\* Buffer.from(data, "base64").toString("utf-8").
DecodedData(b) == Utf8Decode(Base64Decode(b.data))

\* Mutant: a text/plain part does not end the loop.
RECURSIVE ScanParts_NoBreak(_, _)
ScanParts_NoBreak(parts, body) ==
  IF parts = <<>> THEN body
  ELSE LET part == Head(parts)
       IN IF part.mimeType \in {"text/plain", "text/html"} /\ HasData(part.body)
          THEN ScanParts_NoBreak(Tail(parts), DecodedData(part.body))
          ELSE ScanParts_NoBreak(Tail(parts), body)

\* Lines 395-403: the loop over payload.parts; a text/plain part with data
\* ends it, a text/html part with data sets the body and the loop goes on.
RECURSIVE ScanParts(_, _)
ScanParts(parts, body) ==
  IF parts = <<>> THEN body
  ELSE LET part == Head(parts)
       IN IF part.mimeType = "text/plain" /\ HasData(part.body)
          THEN DecodedData(part.body)
          ELSE IF part.mimeType = "text/html" /\ HasData(part.body)
               THEN ScanParts(Tail(parts), DecodedData(part.body))
          ELSE ScanParts(Tail(parts), body)

\* Lines 390-404: the body of the message.
EmailBody(payload) ==
  IF HasData(payload.body) THEN DecodedData(payload.body)
  ELSE ScanParts(payload.parts, <<>>)

\* getEmailContent has got no message.
NoMessage ==
  [stage |-> "none", top |-> NoData, parts |-> <<>>,
   payload |-> ProviderPayload(NoData, <<>>, FALSE), body |-> <<>>]

\* --------------------------------------------------------------- drafts

\* "\r\n".
CRLF == <<13, 10>>

\* "To: ", "Subject: ", "In-Reply-To: " and the Content-Type line (lines
\* 566-569).
ToPrefix == <<84, 111, 58, 32>>
SubjectPrefix == <<83, 117, 98, 106, 101, 99, 116, 58, 32>>
InReplyToPrefix ==
  <<73, 110, 45, 82, 101, 112, 108, 121, 45, 84, 111, 58, 32>>
ContentTypeLine ==
  <<67, 111, 110, 116, 101, 110, 116, 45, 84, 121, 112, 101, 58, 32, 116,
    101, 120, 116, 47, 112, 108, 97, 105, 110, 59, 32, 99, 104, 97, 114,
    115, 101, 116, 61, 117, 116, 102, 45, 56>>

\* context.inReplyTo is not given.
NoReplyTo == [has |-> FALSE, text |-> <<>>]

\* context.to: "a@b", "c@d".
Recipients == {<<97, 64, 98>>, <<99, 64, 100>>}

\* context.subject: "", "Re".
Subjects == {<<>>, <<82, 101>>}

\* context.body: "", "ok", "\u00e9", "~~~", "???", "a\r\n\r\nb".
DraftBodies ==
  {<<>>, <<111, 107>>, <<233>>, <<126, 126, 126>>, <<63, 63, 63>>,
   <<97, 13, 10, 13, 10, 98>>}

\* context.inReplyTo: not given, "", "<1>".
ReplyTos == {NoReplyTo} \cup [has : {TRUE}, text : {<<>>, <<60, 49, 62>>}]

\* Boolean(line): a string is truthy when it is not empty.
NonEmpty(line) == line # <<>>

\* .join(sep).
RECURSIVE Join(_, _)
Join(lines, sep) ==
  IF lines = <<>> THEN <<>>
  ELSE IF Len(lines) = 1 THEN lines[1]
  ELSE lines[1] \o sep \o Join(Tail(lines), sep)

\* Lines 565-574: the lines of the message, without the empty ones, joined
\* by CRLF.
RawMessage(to, subject, body, inReplyTo) ==
  Join(SelectSeq(<<ToPrefix \o to,
                   SubjectPrefix \o subject,
                   ContentTypeLine,
                   IF inReplyTo.has /\ inReplyTo.text # <<>>
                   THEN InReplyToPrefix \o inReplyTo.text
                   ELSE <<>>,
                   <<>>,
                   body>>,
                 NonEmpty),
       CRLF)

\* Lines 576-580: base64 of the UTF-8 bytes, URL-safe, without the padding.
EncodedMessage(raw) == StripPadding(UrlSafe(Base64Encode(Utf8Encode(raw))))

\* createDraftReply has not been called.
NoDraft ==
  [stage |-> "none", to |-> <<>>, subject |-> <<>>, body |-> <<>>,
   inReplyTo |-> NoReplyTo, raw |-> <<>>, encoded |-> <<>>]

\* ------------------------------------------------------------- workflow

\* response.text of the agent.
AgentTexts == {"No campaign emails found", "Tagged 2 emails", "Created 1 event", ""}

\* What agent.generate throws: an Error with its message, or another value
\* with what String() makes of it.
Rejections ==
  {[isError |-> TRUE, message |-> "429 rate limit", string |-> "Error: 429 rate limit"],
   [isError |-> TRUE, message |-> "", string |-> "Error"],
   [isError |-> FALSE, message |-> "undefined", string |-> "aborted"]}

\* error instanceof Error ? error.message : String(error).
ErrorText(error) == IF error.isError THEN error.message ELSE error.string

\* new Date().toISOString() at clock value t.
IsoString(t) == [iso |-> t]

\* A step that has produced no output.
NoStep1 ==
  [done |-> FALSE, agentResponse |-> <<>>, processedAt |-> IsoString(0),
   success |-> FALSE]

NoStep2 ==
  [done |-> FALSE, summary |-> <<>>, completedAt |-> IsoString(0),
   overallSuccess |-> FALSE]

\* No run of the workflow has started.
NoRun ==
  [stage |-> "idle", agent |-> "none", processed |-> NoStep1, result |-> NoStep2]

\* ----------------------------------------------------------------- state

VARIABLES
  cache,        \* cache[f]: calendarConnectionSettings / gmailConnectionSettings
  env,          \* process.env: REPL_IDENTITY, WEB_REPL_RENEWAL
  now,          \* Date.now()
  pc,           \* pc[p]: "idle", or "fetching" while p's call awaits the fetch
  fam,          \* fam[p]: the family of p's pending call
  seen,         \* seen[p]: what p's pending call found in the cache at line 8
  nfetch,       \* nfetch[p]: fetches issued by p's pending call
  overlap,      \* overlap[p]: another call on the family succeeded while p awaits
  afterNC,      \* afterNC[p]: p's pending call follows a not-connected failure
  returned,     \* returned[f]: what the call that assigned cache[f] returned
  notConnected, \* notConnected[f]: the latest completed call on f threw not-connected
  last,         \* the outcome of the latest direct call of a token function
  inv,          \* the tool invocation in progress
  done,         \* the outcome of the latest completed tool invocation
  mailbox,      \* the labels the mail provider holds
  labelLog,     \* the returned invocations of createOrGetLabel recorded, in order
  message,      \* the message getEmailContent got, and the body it returns
  draft,        \* the input of createDraftReply, and the message it builds
  run           \* the run of campaignEmailWorkflow

tokenVars ==
  <<cache, env, now, pc, fam, seen, nfetch, overlap, afterNC, returned,
    notConnected, last>>

vars ==
  <<cache, env, now, pc, fam, seen, nfetch, overlap, afterNC, returned,
    notConnected, last, inv, done, mailbox, labelLog, message, draft, run>>

labelVars == <<mailbox, labelLog>>

\* What the token functions and the provider calls leave alone.
localVars == <<message, draft, run>>

\* What a call finds in the module-level variable when it reaches line 8,
\* recorded as plain facts about the record and the clock.
SeenAt(c, t) ==
  CASE ~c.present -> "norecord"
    [] c.present /\ ~c.settings -> "bare"
    [] c.settings /\ c.expires_at = NoExpiry -> "noexpiry"
    [] c.settings /\ c.expires_at # NoExpiry /\ c.expires_at > t -> "fresh"
    [] OTHER -> "expired"

\* No direct call has completed since the latest call began.
NoCall ==
  [fam |-> "none", seen |-> "none", via |-> "none", kind |-> "none",
   value |-> None, nfetch |-> 0, kept |-> TRUE, stored |-> FALSE,
   expect |-> None, afterNC |-> FALSE]

\* No tool invocation is in progress.
NoInvocation ==
  [op |-> "none", at |-> "none", token |-> None, nremote |-> 0, nfailed |-> 0,
   refs |-> 0, todo |-> 0, emails |-> 0, name |-> NoInput, had |-> FALSE]

\* No tool invocation has completed since the latest one began.
NotDone ==
  [op |-> "none", result |-> "none", error |-> "none", token |-> None,
   nremote |-> 0, nfailed |-> 0, refs |-> 0, count |-> 0]

InitTokens ==
  /\ cache = [f \in Families |-> Undefined]
  /\ env \in [REPL_IDENTITY : {None, "id"}, WEB_REPL_RENEWAL : {None, "renewal"}]
  /\ now = 0
  /\ pc = [p \in Procs |-> "idle"]
  /\ fam = [p \in Procs |-> "none"]
  /\ seen = [p \in Procs |-> "none"]
  /\ nfetch = [p \in Procs |-> 0]
  /\ overlap = [p \in Procs |-> FALSE]
  /\ afterNC = [p \in Procs |-> FALSE]
  /\ returned = [f \in Families |-> None]
  /\ notConnected = [f \in Families |-> FALSE]
  /\ last = NoCall
  /\ inv = NoInvocation
  /\ done = NotDone

\* The process has just loaded the module; the mailbox holds none of the labels.
Init ==
  /\ InitTokens
  /\ mailbox = [n \in LabelNames |-> NoLabel]
  /\ labelLog = [room |-> 0, calls |-> <<>>]
  /\ message = NoMessage
  /\ draft = NoDraft
  /\ run = NoRun

\* ------------------------------------------------------- token functions

\* The tools run on this caller; a call ends before its next one starts.
Caller == 1

\* p may begin operation o: it has no call pending, and a tool runs on the
\* caller, one invocation at a time.
MayBegin(p, o) ==
  /\ pc[p] = "idle"
  /\ p = Caller => inv.at = "none"
  /\ o \in ToolOps => p = Caller

\* The operation whose token call p has pending.
PendingOp(p) ==
  IF p = Caller /\ inv.at = "token" THEN inv.op
  ELSE IF fam[p] = "calendar" THEN "getCalendarAccessToken"
  ELSE "getGmailAccessToken"

\* The invocation record of a tool that awaits the provider call `at`.
Awaiting(o, at, token, nremote, nfailed, refs, todo, emails) ==
  [op |-> o, at |-> at, token |-> token, nremote |-> nremote, nfailed |-> nfailed,
   refs |-> refs, todo |-> todo, emails |-> emails, name |-> NoInput, had |-> FALSE]

\* The provider calls of createOrGetLabel an invocation has issued.
LabelEntry(name, had, created, id, nremote) ==
  [name |-> name, had |-> had, created |-> created, id |-> id,
   lists |-> IF nremote >= 1 THEN 1 ELSE 0,
   creates |-> IF nremote >= 2 THEN nremote - 1 ELSE 0]

\* The returned invocation of createOrGetLabel is recorded while the log has
\* room for it.
Logged(entry) ==
  labelLog' = IF Len(labelLog.calls) < labelLog.room
              THEN [labelLog EXCEPT !.calls = Append(labelLog.calls, entry)]
              ELSE labelLog

\* The token function hands its outcome to its caller.  A direct call ends
\* there.  In a tool the call sits inside getCalendarClient / getGmailClient
\* (lines 41-46 / 252-257) under the tool's try: with a token the tool builds
\* its client and issues its first provider call; a throw reaches the tool's
\* catch, which logs it and throws it again.
HandOver(o, x, kind, value) ==
  /\ UNCHANGED <<mailbox, localVars>>
  /\ IF o \in DirectOps THEN UNCHANGED <<inv, done, labelLog>>
     ELSE IF kind = "ok"
          THEN /\ inv' = [Awaiting(o, FirstCallOf(o), value, 1, 0, 0, 0, 0)
                            EXCEPT !.name = x]
               /\ done' = NotDone
               /\ UNCHANGED labelLog
     ELSE /\ inv' = NoInvocation
          /\ done' = [op |-> o, result |-> "threw", error |-> kind, token |-> None,
                      nremote |-> 0, nfailed |-> 0, refs |-> 0, count |-> 0]
          /\ UNCHANGED labelLog

\* A call that ends in its synchronous part: it returns or throws before any
\* await, having issued no fetch and assigned nothing.
EndsAtOnce(p, o, x, via, kind, value) ==
  LET f == FamilyOf(o)
  IN /\ last' = IF o \in DirectOps
                THEN [fam |-> f, seen |-> SeenAt(cache[f], now), via |-> via,
                      kind |-> kind, value |-> value, nfetch |-> 0, kept |-> TRUE,
                      stored |-> FALSE, expect |-> returned[f],
                      afterNC |-> notConnected[f]]
                ELSE NoCall
     /\ notConnected' = [notConnected EXCEPT ![f] = FALSE]
     /\ HandOver(o, x, kind, value)
     /\ UNCHANGED <<cache, env, now, pc, fam, seen, nfetch, overlap, afterNC, returned>>

\* Lines 8-10 / 219-221: the early return of settings.access_token.
CacheHitReturn(p, o, x) ==
  /\ MayBegin(p, o)
  /\ CacheCheck(cache[FamilyOf(o)], now) = "hit"
  /\ EndsAtOnce(p, o, x, "cache", "ok", cache[FamilyOf(o)].access_token)

\* Line 8 / 219 on a cached item without settings: reading
\* settings.expires_at of undefined throws.
CacheCheckThrows(p, o, x) ==
  /\ MayBegin(p, o)
  /\ CacheCheck(cache[FamilyOf(o)], now) = "throws"
  /\ EndsAtOnce(p, o, x, "none", TypeErrorMsg, None)

\* Lines 19-21 / 230-232: no identity source.
ConfigurationThrow(p, o, x) ==
  /\ MayBegin(p, o)
  /\ CacheCheck(cache[FamilyOf(o)], now) = "miss"
  /\ XReplitToken(env) = None
  /\ EndsAtOnce(p, o, x, "none", ConfigMsg, None)

\* Lines 23-31 / 234-242: the fetch is issued and the call awaits it.
IssueFetch(p, o, x) ==
  LET f == FamilyOf(o)
  IN /\ MayBegin(p, o)
     /\ CacheCheck(cache[f], now) = "miss"
     /\ XReplitToken(env) # None
     /\ pc' = [pc EXCEPT ![p] = "fetching"]
     /\ fam' = [fam EXCEPT ![p] = f]
     /\ seen' = [seen EXCEPT ![p] = SeenAt(cache[f], now)]
     /\ nfetch' = [nfetch EXCEPT ![p] = 1]
     /\ afterNC' = [afterNC EXCEPT ![p] = notConnected[f]]
     /\ last' = NoCall
     /\ inv' = IF o \in ToolOps
               THEN [Awaiting(o, "token", None, 0, 0, 0, 0, 0) EXCEPT !.name = x]
               ELSE inv
     /\ done' = IF o \in ToolOps THEN NotDone ELSE done
     /\ UNCHANGED <<cache, env, now, overlap, returned, notConnected, labelVars, localVars>>

\* The pending call p ends: it returns or throws from its continuation,
\* leaving `after` in the module-level variable.
EndsAfterFetch(p, kind, value, after, item, resolved) ==
  /\ pc' = [pc EXCEPT ![p] = "idle"]
  /\ fam' = [fam EXCEPT ![p] = "none"]
  /\ seen' = [seen EXCEPT ![p] = "none"]
  /\ nfetch' = [nfetch EXCEPT ![p] = 0]
  /\ afterNC' = [afterNC EXCEPT ![p] = FALSE]
  /\ overlap' = [q \in Procs |->
                   IF q = p THEN FALSE
                   ELSE IF pc[q] = "fetching" /\ fam[q] = fam[p] /\ kind = "ok" THEN TRUE
                   ELSE overlap[q]]
  /\ notConnected' = [notConnected EXCEPT ![fam[p]] = (kind = NotConnectedMsg(fam[p]))]
  /\ last' = IF PendingOp(p) \in DirectOps
             THEN [fam |-> fam[p], seen |-> seen[p], via |-> "fetch", kind |-> kind,
                   value |-> value, nfetch |-> nfetch[p],
                   kept |-> (after = cache[fam[p]]),
                   stored |-> (resolved /\ after = item),
                   expect |-> None, afterNC |-> afterNC[p]]
             ELSE NoCall
  /\ HandOver(PendingOp(p), IF p = Caller THEN inv.name ELSE NoInput, kind, value)

\* The fetch, or res.json(), rejects: the await throws before the assignment.
FetchRejects(p) ==
  /\ pc[p] = "fetching"
  /\ EndsAfterFetch(p, FetchErrorMsg, None, cache[fam[p]], Undefined, FALSE)
  /\ UNCHANGED <<cache, env, now, returned>>

\* What the continuation assigns to the module-level variable (line 23 / 234):
\* the fetched item, whatever the variable held.
StoredItem(old, item) == item

\* Lines 35-38 / 246-249, after line 33 / 244: what the call does with the
\* assigned item c.
Verdict(f, c) ==
  LET x == ExtractToken(c)
  IN IF x.throws THEN [kind |-> TypeErrorMsg, value |-> None]
     ELSE IF ~c.present \/ ~Truthy(x.token)
          THEN [kind |-> NotConnectedMsg(f), value |-> None]
     ELSE [kind |-> "ok", value |-> x.token]

\* Lines 23 and 33-38 / 234 and 244-249: the response arrives, its first item
\* is assigned to the module-level variable, then the token is extracted.
FetchResolves(p, item) ==
  LET f == fam[p]
      c == StoredItem(cache[f], item)
      v == Verdict(f, c)
  IN /\ pc[p] = "fetching"
     /\ cache' = [cache EXCEPT ![f] = c]
     /\ returned' = [returned EXCEPT ![f] = v.value]
     /\ EndsAfterFetch(p, v.kind, v.value, c, item, TRUE)
     /\ UNCHANGED <<env, now>>

\* Time passes.
Tick ==
  /\ now < MaxTime
  /\ now' = now + 1
  /\ UNCHANGED <<cache, env, pc, fam, seen, nfetch, overlap, afterNC, returned,
                 notConnected, last, inv, done, labelVars,
                 localVars>>

\* One caller at a time calls the token functions directly.
Next ==
  \/ \E o \in DirectOps : CacheHitReturn(Caller, o, NoInput)
  \/ \E o \in DirectOps : CacheCheckThrows(Caller, o, NoInput)
  \/ \E o \in DirectOps : ConfigurationThrow(Caller, o, NoInput)
  \/ \E o \in DirectOps : IssueFetch(Caller, o, NoInput)
  \/ FetchRejects(Caller)
  \/ \E item \in ItemVals : FetchResolves(Caller, item)
  \/ Tick

Spec == Init /\ [][Next]_vars

\* Overlapping direct callers, with an identity credential in the environment.
InitConc ==
  /\ Init
  /\ env = [REPL_IDENTITY |-> "id", WEB_REPL_RENEWAL |-> None]

NextConc ==
  \/ \E p \in Procs, o \in DirectOps : CacheHitReturn(p, o, NoInput)
  \/ \E p \in Procs, o \in DirectOps : CacheCheckThrows(p, o, NoInput)
  \/ \E p \in Procs, o \in DirectOps : IssueFetch(p, o, NoInput)
  \/ \E p \in Procs : FetchRejects(p)
  \/ \E p \in Procs, item \in ItemVals : FetchResolves(p, item)
  \/ Tick

SpecConc == InitConc /\ [][NextConc]_vars

\* ------------------------------------------------------------------ tools

\* The tool returns its output object; count is the length of the sequence a
\* list tool returns (emails, events).
Returns(count) ==
  /\ done' = [op |-> inv.op, result |-> "returned", error |-> "none",
              token |-> inv.token, nremote |-> inv.nremote, nfailed |-> inv.nfailed,
              refs |-> inv.refs, count |-> count]
  /\ inv' = NoInvocation

\* The provider call the tool awaits fails and the tool's outer catch takes
\* it: the error is logged and thrown again (lines 134-139, 203-208, 344-347,
\* 417-422, 480-485, 526-529, 600-605).
ProviderCallThrows ==
  /\ inv.at \notin {"none", "token"}
  /\ ~(inv.op = "listEmails" /\ inv.at = "messages.get")
  /\ done' = [op |-> inv.op, result |-> "threw", error |-> ProviderErrorMsg,
              token |-> inv.token, nremote |-> inv.nremote,
              nfailed |-> inv.nfailed + 1, refs |-> inv.refs, count |-> 0]
  /\ inv' = NoInvocation
  /\ UNCHANGED <<tokenVars, labelVars, localVars>>

\* The loop of listEmails goes to its next message reference, or leaves the
\* loop and returns { emails, totalCount: emails.length } (lines 310, 340-343).
NextMessage(nfailed, emails) ==
  IF inv.todo = 1
  THEN /\ done' = [op |-> inv.op, result |-> "returned", error |-> "none",
                   token |-> inv.token, nremote |-> inv.nremote, nfailed |-> nfailed,
                   refs |-> inv.refs, count |-> emails]
       /\ inv' = NoInvocation
  ELSE /\ inv' = [inv EXCEPT !.todo = inv.todo - 1, !.nremote = inv.nremote + 1,
                             !.nfailed = nfailed, !.emails = emails]
       /\ UNCHANGED done

\* Lines 311-337: messages.get fails inside the loop of listEmails; the inner
\* catch logs a warning and the loop goes on.
MessageGetThrowsInList ==
  /\ inv.op = "listEmails"
  /\ inv.at = "messages.get"
  /\ NextMessage(inv.nfailed + 1, inv.emails)
  /\ UNCHANGED <<tokenVars, labelVars, localVars>>

\* Lines 312-334: messages.get returns inside the loop; one summary is pushed.
MessageGetReturnsInList ==
  /\ inv.op = "listEmails"
  /\ inv.at = "messages.get"
  /\ NextMessage(inv.nfailed, inv.emails + 1)
  /\ UNCHANGED <<tokenVars, labelVars, localVars>>

\* Mutant: the loop over the message references is lost; the references are
\* returned as they are, with no messages.get.
MessagesListReturns_NoGets(k) ==
  /\ inv.at = "messages.list"
  /\ inv' = NoInvocation
  /\ done' = [op |-> inv.op, result |-> "returned", error |-> "none",
              token |-> inv.token, nremote |-> inv.nremote, nfailed |-> inv.nfailed,
              refs |-> k, count |-> k]
  /\ UNCHANGED <<tokenVars, labelVars, localVars>>

\* Lines 300-310: messages.list returns k message references.
MessagesListReturns(k) ==
  /\ inv.at = "messages.list"
  /\ IF k = 0
     THEN Returns(0)
     ELSE /\ inv' = [inv EXCEPT !.at = "messages.get", !.refs = k, !.todo = k,
                                !.nremote = inv.nremote + 1]
          /\ UNCHANGED done
  /\ UNCHANGED <<tokenVars, labelVars, localVars>>

\* Lines 179-202: events.list returns n events; each is mapped to a summary.
EventsListReturns(n) ==
  /\ inv.at = "events.list"
  /\ inv' = NoInvocation
  /\ done' = [op |-> inv.op, result |-> "returned", error |-> "none",
              token |-> inv.token, nremote |-> inv.nremote, nfailed |-> inv.nfailed,
              refs |-> n, count |-> n]
  /\ UNCHANGED <<tokenVars, labelVars, localVars>>

\* Lines 447-461: labels.list returns the labels of the mailbox; the label of
\* that name is returned when find() finds it, labels.create is issued
\* otherwise.
LabelsListReturns ==
  LET existingLabel == FindLabel(mailbox, inv.name)
      had == mailbox[inv.name] # NoLabel
  IN /\ inv.at = "labels.list"
     /\ IF existingLabel # NoLabel
        THEN /\ Returns(0)
             /\ Logged(LabelEntry(inv.name, had, FALSE, existingLabel,
                                  inv.nremote))
        ELSE /\ inv' = [inv EXCEPT !.at = "labels.create", !.had = had,
                                   !.nremote = inv.nremote + 1]
             /\ UNCHANGED <<done, labelLog>>
     /\ UNCHANGED <<tokenVars, mailbox, localVars>>

\* Lines 463-479: labels.create returns the label it created, under an id of
\* the provider's; the provider takes no second label of a name it holds.
LabelsCreateReturns ==
  LET id == FreshId(mailbox)
  IN /\ inv.at = "labels.create"
     /\ mailbox[inv.name] = NoLabel
     /\ mailbox' = [mailbox EXCEPT ![inv.name] = id]
     /\ Returns(0)
     /\ Logged(LabelEntry(inv.name, inv.had, TRUE, id, inv.nremote))
     /\ UNCHANGED <<tokenVars, localVars>>

\* The provider call of a tool that ends with it returns: events.insert
\* (112-133), messages.get of getEmailContent (377-416), messages.modify
\* (512-525), drafts.create (582-599).
FinalCallReturns ==
  /\ \/ inv.at \in {"events.insert", "messages.modify", "drafts.create"}
     \/ (inv.op = "getEmailContent" /\ inv.at = "messages.get")
  /\ Returns(0)
  /\ UNCHANGED <<tokenVars, labelVars, localVars>>

\* The label name the agent passes to createOrGetLabel.
InputOf(o) == IF o = "createOrGetLabel" THEN CampaignLabel ELSE NoInput

\* One caller invokes the tools, one invocation at a time.
NextTools ==
  \/ \E o \in ToolOps : CacheHitReturn(Caller, o, InputOf(o))
  \/ \E o \in ToolOps : CacheCheckThrows(Caller, o, InputOf(o))
  \/ \E o \in ToolOps : ConfigurationThrow(Caller, o, InputOf(o))
  \/ \E o \in ToolOps : IssueFetch(Caller, o, InputOf(o))
  \/ FetchRejects(Caller)
  \/ \E item \in ItemVals : FetchResolves(Caller, item)
  \/ Tick
  \/ ProviderCallThrows
  \/ MessageGetThrowsInList
  \/ MessageGetReturnsInList
  \/ \E k \in 0..MaxItems : MessagesListReturns(k)
  \/ \E n \in 0..MaxItems : EventsListReturns(n)
  \/ LabelsListReturns
  \/ LabelsCreateReturns
  \/ FinalCallReturns

SpecTools == Init /\ [][NextTools]_vars

\* createOrGetLabel alone, called with either name on any mailbox.
InitLabel ==
  /\ InitTokens
  /\ mailbox \in Mailboxes
  /\ labelLog = [room |-> MaxLabelCalls, calls |-> <<>>]
  /\ message = NoMessage
  /\ draft = NoDraft
  /\ run = NoRun

NextLabel ==
  \/ \E x \in LabelNames : CacheHitReturn(Caller, "createOrGetLabel", x)
  \/ \E x \in LabelNames : CacheCheckThrows(Caller, "createOrGetLabel", x)
  \/ \E x \in LabelNames : ConfigurationThrow(Caller, "createOrGetLabel", x)
  \/ \E x \in LabelNames : IssueFetch(Caller, "createOrGetLabel", x)
  \/ FetchRejects(Caller)
  \/ \E item \in ItemVals : FetchResolves(Caller, item)
  \/ Tick
  \/ ProviderCallThrows
  \/ LabelsListReturns
  \/ LabelsCreateReturns

SpecLabel == InitLabel /\ [][NextLabel]_vars

\* -------------------------------------------------------- getEmailContent

\* messages.get has returned a message of any texts.
InitBody ==
  /\ InitTokens
  /\ env = [REPL_IDENTITY |-> "id", WEB_REPL_RENEWAL |-> None]
  /\ mailbox = [n \in LabelNames |-> NoLabel]
  /\ labelLog = [room |-> 0, calls |-> <<>>]
  /\ \E top \in BodyData, parts \in PartLists, padded \in BOOLEAN :
       message = [stage |-> "got", top |-> top, parts |-> parts,
                  payload |-> ProviderPayload(top, parts, padded), body |-> <<>>]
  /\ draft = NoDraft
  /\ run = NoRun

\* Lines 390-416: the body is decoded and returned.
DecodeBody ==
  /\ message.stage = "got"
  /\ message' = [message EXCEPT !.stage = "returned",
                                !.body = EmailBody(message.payload)]
  /\ UNCHANGED <<tokenVars, inv, done, labelVars, draft, run>>

NextBody == DecodeBody

SpecBody == InitBody /\ [][NextBody]_vars

\* -------------------------------------------------------- createDraftReply

\* createDraftReply holds its client and any input.
InitDraft ==
  /\ InitTokens
  /\ env = [REPL_IDENTITY |-> "id", WEB_REPL_RENEWAL |-> None]
  /\ mailbox = [n \in LabelNames |-> NoLabel]
  /\ labelLog = [room |-> 0, calls |-> <<>>]
  /\ message = NoMessage
  /\ \E to \in Recipients, subject \in Subjects, body \in DraftBodies,
        inReplyTo \in ReplyTos :
       draft = [NoDraft EXCEPT !.stage = "called", !.to = to, !.subject = subject,
                               !.body = body, !.inReplyTo = inReplyTo]
  /\ run = NoRun

\* Lines 565-574: rawMessage.
BuildRawMessage ==
  /\ draft.stage = "called"
  /\ draft' = [draft EXCEPT !.stage = "built",
                            !.raw = RawMessage(draft.to, draft.subject, draft.body,
                                               draft.inReplyTo)]
  /\ UNCHANGED <<tokenVars, inv, done, labelVars, message, run>>

\* Lines 576-580: encodedMessage, the raw field of drafts.create.
EncodeMessage ==
  /\ draft.stage = "built"
  /\ draft' = [draft EXCEPT !.stage = "encoded", !.encoded = EncodedMessage(draft.raw)]
  /\ UNCHANGED <<tokenVars, inv, done, labelVars, message, run>>

NextDraft ==
  \/ BuildRawMessage
  \/ EncodeMessage

SpecDraft == InitDraft /\ [][NextDraft]_vars

\* --------------------------------------------------------------- workflow

\* The trigger starts a run: processEmailsStep.execute builds its prompt and
\* awaits campaignEmailAgent.generate.
StartRun ==
  /\ run.stage \in {"idle", "completed", "failed"}
  /\ run' = [NoRun EXCEPT !.stage = "processing"]
  /\ UNCHANGED <<tokenVars, inv, done, labelVars, message, draft>>

\* The agent returns: step 1 returns its text with success: true.
AgentReturns(text) ==
  /\ run.stage = "processing"
  /\ run' = [run EXCEPT !.stage = "processed", !.agent = "returned",
                        !.processed = [done |-> TRUE, agentResponse |-> <<text>>,
                                       processedAt |-> IsoString(now),
                                       success |-> TRUE]]
  /\ UNCHANGED <<tokenVars, inv, done, labelVars, message, draft>>

\* Mutant: the catch of step 1 throws the error again, and the run fails.
AgentThrows_Rethrown(error) ==
  /\ run.stage = "processing"
  /\ run' = [run EXCEPT !.stage = "failed", !.agent = "threw"]
  /\ UNCHANGED <<tokenVars, inv, done, labelVars, message, draft>>

\* The agent throws: the catch of step 1 returns the error's text with
\* success: false.
AgentThrows(error) ==
  /\ run.stage = "processing"
  /\ run' = [run EXCEPT !.stage = "processed", !.agent = "threw",
                        !.processed =
                          [done |-> TRUE,
                           agentResponse |-> <<"Error processing emails: ",
                                               ErrorText(error)>>,
                           processedAt |-> IsoString(now),
                           success |-> FALSE]]
  /\ UNCHANGED <<tokenVars, inv, done, labelVars, message, draft>>

\* Step 2 runs on the output of step 1 and its output is the run's result.
GenerateSummary ==
  LET inputData == run.processed
  IN /\ run.stage = "processed"
     /\ run' = [run EXCEPT !.stage = "completed",
                           !.result =
                             [done |-> TRUE,
                              summary |-> <<"Processed at: ", inputData.processedAt,
                                            "Status: ",
                                            IF inputData.success THEN "Successful"
                                            ELSE "Failed",
                                            "Agent Report:", inputData.agentResponse>>,
                              completedAt |-> IsoString(now),
                              overallSuccess |-> inputData.success]]
     /\ UNCHANGED <<tokenVars, inv, done, labelVars, message, draft>>

InitWorkflow ==
  /\ Init
  /\ env = [REPL_IDENTITY |-> "id", WEB_REPL_RENEWAL |-> None]

NextWorkflow ==
  \/ StartRun
  \/ \E text \in AgentTexts : AgentReturns(text)
  \/ \E error \in Rejections : AgentThrows(error)
  \/ GenerateSummary
  \/ Tick

SpecWorkflow == InitWorkflow /\ [][NextWorkflow]_vars

\* ---------------------------------------------------------------- claims
\* The formulas below read the recorded outcome of the latest completed call
\* (last) and state what they expect of it from the record's plain fields,
\* without going through CacheCheck, ExtractToken or XReplitToken.

\* An identity source is present in the environment.
HasIdentity(e) == e.REPL_IDENTITY # None \/ e.WEB_REPL_RENEWAL # None

\* The record carries a token in one of its two places.
CarriesToken(c) ==
  c.present /\ c.settings /\ (c.access_token # None \/ c.oauth_token # None)

\* The token a record carries: the direct field first, the nested one otherwise.
TokenOf(c) == IF c.access_token # None THEN c.access_token ELSE c.oauth_token

\* C1: a call that finds a record whose expiry is strictly after the current
\* time issues no fetch and returns the very token that the call which
\* populated the record returned, wherever that token came from.
C1_CacheHitReturnsPopulatedToken ==
  last.seen = "fresh" =>
    /\ last.via = "cache"
    /\ last.nfetch = 0
    /\ last.kind = "ok"
    /\ last.value = last.expect

\* C2: a call that finds no record, or a record whose expiry is at or before
\* the current time, with an identity source present, issues exactly one fetch;
\* when it succeeds the cached record is the fetched one and the call returns
\* the token of that record.
C2_MissFetchesOnceAndReplaces ==
  HasIdentity(env) =>
    /\ \A p \in Procs :
         (pc[p] = "fetching" /\ seen[p] \in {"norecord", "expired"}) => nfetch[p] = 1
    /\ last.seen \in {"norecord", "expired"} =>
         /\ last.via = "fetch"
         /\ last.nfetch = 1
         /\ last.kind = "ok" =>
              /\ last.stored
              /\ CarriesToken(cache[last.fam])
              /\ last.value = TokenOf(cache[last.fam])

C2_Witness ==
  /\ last.seen = "expired"
  /\ last.via = "fetch"
  /\ last.kind = "ok"
  /\ last.nfetch = 1
  /\ last.stored

\* C3: in every reachable state the cache of each family is empty or holds a
\* record from which an access token can be extracted.
C3_CachedRecordCarriesToken ==
  \A f \in Families : cache[f].present => CarriesToken(cache[f])

\* C4: the call that follows a not-connected failure on the same family issues
\* a fetch, and returns the token of the item when the connector now returns
\* an item that carries one.
C4_RecoversAfterNotConnected ==
  last.afterNC =>
    /\ last.via = "fetch"
    /\ last.nfetch = 1
    /\ (last.stored /\ CarriesToken(cache[last.fam])) =>
         (last.kind = "ok" /\ last.value = TokenOf(cache[last.fam]))

\* C5 as claimed: a call that finds a record without expires_at returns its
\* token from the cache, with no fetch.
C5_NoExpiryIsHit ==
  /\ \A p \in Procs :
       ~(pc[p] = "fetching" /\ seen[p] = "noexpiry" /\ CarriesToken(cache[fam[p]]))
  /\ last.seen = "noexpiry" =>
       (last.via = "cache" /\ last.nfetch = 0 /\ last.kind = "ok")

\* C5 as amended: a record without expires_at is never served from the cache;
\* when the record has a settings object (and an identity source is present)
\* the call issues exactly one fetch.
C5_NoExpiryIsMiss ==
  /\ \A p \in Procs : (pc[p] = "fetching" /\ seen[p] = "noexpiry") => nfetch[p] = 1
  /\ last.seen \in {"noexpiry", "bare"} =>
       (last.via # "cache" /\ ~(last.kind = "ok" /\ last.nfetch = 0))
  /\ (last.seen = "noexpiry" /\ HasIdentity(env)) =>
       (last.via = "fetch" /\ last.nfetch = 1)

C5_Witness ==
  /\ last.seen = "noexpiry"
  /\ last.via = "fetch"
  /\ last.nfetch = 1

\* C6: on a fetch, an item with settings.access_token = A yields A, an item
\* with only settings.oauth.credentials.access_token = B yields B, and an item
\* with neither fails with the not-connected error of the family.
C6_TokenExtraction ==
  (last.via = "fetch" /\ last.stored /\ cache[last.fam].present) =>
    LET c == cache[last.fam]
    IN /\ (c.settings /\ c.access_token # None) =>
            (last.kind = "ok" /\ last.value = c.access_token)
       /\ (c.settings /\ c.access_token = None /\ c.oauth_token # None) =>
            (last.kind = "ok" /\ last.value = c.oauth_token)
       /\ (~c.settings \/ (c.access_token = None /\ c.oauth_token = None)) =>
            /\ last.kind = (IF last.fam = "calendar"
                            THEN "Google Calendar not connected"
                            ELSE "Gmail not connected")
            /\ last.value = None

C6_Witness ==
  /\ last.via = "fetch"
  /\ last.stored
  /\ cache[last.fam].access_token = None
  /\ cache[last.fam].oauth_token = "B"
  /\ last.kind = "ok"
  /\ last.value = "B"

\* C7: a fetch whose response holds no item fails with the not-connected
\* error naming the family, and with no other failure.
C7_NoItemIsNotConnected ==
  (last.via = "fetch" /\ last.stored /\ ~cache[last.fam].present) =>
    last.kind = (IF last.fam = "calendar"
                 THEN "Google Calendar not connected"
                 ELSE "Gmail not connected")

\* C8: with neither identity source present, a call that misses the cache
\* fails with the configuration error, issues no fetch and leaves the cached
\* record as it was.
C8_NoIdentityConfigError ==
  ~HasIdentity(env) =>
    /\ \A p \in Procs : pc[p] = "idle" /\ nfetch[p] = 0
    /\ last.seen \in {"norecord", "expired", "noexpiry"} =>
         /\ last.kind = "X_REPLIT_TOKEN not found for repl/depl"
         /\ last.via = "none"
         /\ last.nfetch = 0
         /\ last.kept

C8_Witness ==
  /\ ~HasIdentity(env)
  /\ last.seen = "norecord"
  /\ last.kind = "X_REPLIT_TOKEN not found for repl/depl"
  /\ last.nfetch = 0

\* C9: when calls on a family overlap, a call whose fetch ends successfully
\* leaves the fetched record cached, and a call that fails after another call
\* on the family succeeded meanwhile leaves the record cached by that call in
\* place.
C9_ConcurrentMissesHarmless ==
  [][\A p \in Procs :
       (pc[p] = "fetching" /\ pc'[p] = "idle") =>
         /\ last'.kind = "ok" => last'.stored
         /\ (last'.kind # "ok" /\ overlap[p] /\ CarriesToken(cache[fam[p]])) =>
              cache'[fam[p]] = cache[fam[p]]]_vars

\* C10: whenever a provider call made by a tool invocation failed, the
\* invocation ends by raising that failure; none returns a result.
C10_ProviderFailureSurfaces ==
  done.nfailed > 0 => (done.result = "threw" /\ done.error = "ProviderError")

\* The failures of token acquisition, as they reach a tool's caller.
TokenErrors ==
  {"X_REPLIT_TOKEN not found for repl/depl", "Google Calendar not connected",
   "Gmail not connected", "TypeError", "FetchError"}

\* The tools whose execute holds a single provider call.
SingleCallTools ==
  {"createCalendarEvent", "listUpcomingEvents", "getEmailContent",
   "addLabelToEmail", "createDraftReply"}

\* C11 as claimed: every tool invocation that got its client issues exactly
\* one provider call.
C11_ExactlyOneProviderCall ==
  (done.op # "none" /\ done.error \notin TokenErrors) => done.nremote = 1

\* C11 as amended: an invocation that got its client issues one provider call
\* in the five single-call tools; createOrGetLabel issues one (labels.list) or
\* two (labels.list, labels.create); listEmails issues one messages.list and,
\* when it returns, one messages.get per reference listed.  An invocation
\* whose token acquisition failed issues none.
C11_ProviderCallsPerTool ==
  done.op # "none" =>
    /\ done.error \in TokenErrors => done.nremote = 0
    /\ (done.error \notin TokenErrors /\ done.op \in SingleCallTools) =>
         done.nremote = 1
    /\ (done.error \notin TokenErrors /\ done.op = "createOrGetLabel") =>
         done.nremote \in {1, 2}
    /\ (done.error \notin TokenErrors /\ done.op = "listEmails") =>
         /\ done.nremote >= 1
         /\ done.nremote <= 1 + done.refs
         /\ done.result = "returned" => done.nremote = 1 + done.refs

C11_Witness ==
  /\ done.op = "listEmails"
  /\ done.result = "returned"
  /\ done.refs = 2
  /\ done.nremote = 3

\* C12: a tool issues a provider call only with a token (a defined string)
\* that the token function returned in the same invocation; when token
\* acquisition fails the invocation throws that failure and issues no
\* provider call.
C12_TokenBeforeProviderCall ==
  /\ inv.nremote > 0 => inv.token # None
  /\ done.nremote > 0 => done.token # None
  /\ done.error \in TokenErrors => (done.result = "threw" /\ done.nremote = 0)

\* Entries i < j of the log are two returned calls in a row with the same
\* label name: no returned call in between used that name.
NextCallOfName(i, j) ==
  /\ i < j
  /\ labelLog.calls[i].name = labelLog.calls[j].name
  /\ \A k \in (i + 1)..(j - 1) : labelLog.calls[k].name # labelLog.calls[i].name

\* C13: create-or-get is idempotent over sequential calls.  When the mailbox
\* holds no label named N and create-or-get is called twice with N, both
\* calls returning, the first call issues one create call and reports
\* created = true, and the second issues one list call and no create call
\* and reports created = false with the id the first call reported: one
\* create call in total.
C13_CreateOrGetIdempotent ==
  \A i, j \in 1..Len(labelLog.calls) :
    (NextCallOfName(i, j) /\ ~labelLog.calls[i].had) =>
      LET first == labelLog.calls[i]
          second == labelLog.calls[j]
      IN /\ first.created
         /\ first.creates = 1
         /\ ~second.created
         /\ second.lists = 1
         /\ second.creates = 0
         /\ second.id = first.id
         /\ first.creates + second.creates = 1

C13_Witness ==
  /\ Len(labelLog.calls) = 2
  /\ labelLog.calls[1].name = labelLog.calls[2].name
  /\ ~labelLog.calls[1].had
  /\ labelLog.calls[1].created
  /\ ~labelLog.calls[2].created
  /\ labelLog.calls[2].id = labelLog.calls[1].id

\* The part carries text: its body data is there and not empty.
CarriesText(part) == part.body.has /\ part.body.text # <<>>

\* The parts of the message that are of this type and carry text.
PartsOfType(type) ==
  {i \in 1..Len(message.parts) :
     message.parts[i].mimeType = type /\ CarriesText(message.parts[i])}

\* C14: for a payload without top-level body data whose parts hold both a
\* text/html part and a text/plain part with data, in any order, the body
\* returned is the text of the first text/plain part with data; a payload
\* with a top-level body only returns the text that body encodes.
C14_PlainTextPreferred ==
  message.stage = "returned" =>
    /\ ( /\ ~(message.top.has /\ message.top.text # <<>>)
         /\ PartsOfType("text/plain") # {}
         /\ PartsOfType("text/html") # {} ) =>
           \E i \in PartsOfType("text/plain") :
             /\ \A j \in PartsOfType("text/plain") : i <= j
             /\ message.body = message.parts[i].body.text
    /\ (message.top.has /\ message.parts = <<>>) =>
         message.body = message.top.text

C14_Witness ==
  /\ message.stage = "returned"
  /\ ~message.top.has
  /\ \E i \in PartsOfType("text/html"), j \in PartsOfType("text/plain") :
       /\ i < j
       /\ message.parts[i].body.text # message.parts[j].body.text
       /\ message.body = message.parts[j].body.text
       /\ message.body = <<97, 98, 63, 72>>

\* C15: a list tool whose provider list call returned k references (k = 0
\* included) returns k summarized records and totalCount = k, the length of
\* the sequence it returns.
C15_ListReturnsEveryReference ==
  (done.result = "returned" /\ done.op \in {"listEmails", "listUpcomingEvents"}) =>
    done.count = done.refs

\* C16: step 2 has run only when step 1 has completed; step 1 never raises,
\* it turns a failure of the agent into an output with success = false and
\* an error text, so no run fails before step 2 and a run that has an output
\* of step 1 goes on to step 2; the overallSuccess of the run is the success
\* flag of step 1.
C16_SummaryFollowsProcessing ==
  /\ run.stage # "failed"
  /\ run.result.done => run.processed.done
  /\ (run.stage = "completed") = run.result.done
  /\ run.agent # "none" => run.processed.done
  /\ run.processed.done =>
       /\ run.processed.success = (run.agent = "returned")
       /\ run.agent = "threw" =>
            /\ Len(run.processed.agentResponse) = 2
            /\ Head(run.processed.agentResponse) = "Error processing emails: "
  /\ run.result.done => run.result.overallSuccess = run.processed.success

C16_Witness ==
  /\ run.stage = "completed"
  /\ run.agent = "threw"
  /\ ~run.result.overallSuccess
  /\ run.processed.agentResponse = <<"Error processing emails: ", "aborted">>

\* C17: the raw message of a draft is its header lines (To, Subject,
\* Content-Type, and In-Reply-To when given), one empty line, then the body,
\* joined by CRLF, whatever the input; its encoded form holds no '+', no '/'
\* and no '=' at its end.
C17_DraftHasSeparatorLine ==
  draft.stage = "encoded" =>
    /\ draft.raw =
         ToPrefix \o draft.to \o CRLF
         \o SubjectPrefix \o draft.subject \o CRLF
         \o ContentTypeLine \o CRLF
         \o (IF draft.inReplyTo.has /\ draft.inReplyTo.text # <<>>
             THEN InReplyToPrefix \o draft.inReplyTo.text \o CRLF
             ELSE <<>>)
         \o CRLF
         \o draft.body
    /\ \A i \in 1..Len(draft.encoded) : draft.encoded[i] \notin {43, 47}
    /\ draft.encoded # <<>> => draft.encoded[Len(draft.encoded)] # 61

\* C18: the two caches are independent.  A step changes the cached record of
\* a family only as the ending of a pending token call of an invocation of
\* that family's tools, so no call or invocation for one family, returning
\* or throwing, alters the other family's record; and an invocation that
\* gets its token from the cache leaves both records as they were.
C18_CachesIndependent ==
  [][ /\ \A f \in Families :
           cache'[f] # cache[f] =>
             /\ pc[Caller] = "fetching"
             /\ pc'[Caller] = "idle"
             /\ inv.at = "token"
             /\ (f = "calendar") = (inv.op \in CalendarTools)
             /\ (f = "mail") = (inv.op \in MailTools)
      /\ (inv.at = "none" /\ inv'.at \notin {"none", "token"}) => cache' = cache
      /\ inv.at \notin {"none", "token"} => cache' = cache ]_vars

C18_Witness ==
  /\ cache["calendar"].present
  /\ cache["calendar"].access_token = "A"
  /\ cache["mail"].present
  /\ cache["mail"].access_token = None
  /\ done.op \in MailTools
  /\ done.result = "threw"
  /\ done.error = "Gmail not connected"

====
